---- MODULE Spec2Model ----
(***************************************************************************)
(* Attribute resolution of the derive macros:                              *)
(*   crates/bevy_macro_utils/src/attrs.rs        literal extractors        *)
(*   crates/bevy_ecs/macros/src/component.rs     parse_component_attr      *)
(*   crates/bevy_reflect/bevy_reflect_derive/src/field_attributes.rs       *)
(*                                               parse_field_attrs         *)
(*                                                                         *)
(* A behaviour is one call of one entry point.  The attributes of the      *)
(* declaration and the nodes of each attribute list are read one at a      *)
(* time, in source order, each drawn from a small set when it is read.     *)
(*                                                                         *)
(* syn 2 conventions the code relies on (the library is not part of the    *)
(* repository):                                                            *)
(*  - parse_nested_meta reads a path, calls the closure, propagates the    *)
(*    closure's Err with the ? operator (the rest of the list is never     *)
(*    read), and after an Ok closure requires the end of the list or a     *)
(*    comma ("expected ," otherwise);                                      *)
(*  - ParseNestedMeta.input stands AFTER the path parse_nested_meta read;  *)
(*    MetaNameValue::parse / MetaList::parse on it start with a path of    *)
(*    their own, and a failed parse keeps the tokens it consumed;          *)
(*  - syn::Error is a list of messages, combine() appends.                 *)
(***************************************************************************)
EXTENDS Naturals, Sequences, FiniteSets

\* ------------------------------------------------------------------ bounds
\* attributes on one declaration
MaxAttrs == 2
\* nodes read inside one attribute (all nesting levels together)
MaxNodes == 3
\* nesting depth of attribute lists (1 = the attribute's own list)
MaxDepth == 2

\* --------------------------------------------------------- program constants
IGNORE_SERIALIZATION_ATTR == "skip_serializing"
IGNORE_ALL_ATTR == "ignore"
DEFAULT_ATTR == "default"
REFLECT_ATTRIBUTE_NAME == "reflect"
COMPONENT == "component"
STORAGE == "storage"
TABLE == "Table"
SPARSE_SET == "SparseSet"

\* ------------------------------------------------------------------ values
\* syn::Lit: a literal token, by kind and source text.
StrLits == {[kind |-> "Str", text |-> t] : t \in {"Table", "SparseSet", "Unknown", "make_value", "1+"}}
BoolLits == {[kind |-> "Bool", text |-> t] : t \in {"true", "false"}}
IntLits == {[kind |-> "Int", text |-> "7"]}
Lits == StrLits \cup BoolLits \cup IntLits

\* syn::Expr on the right of the = sign: a literal or a bare path.
LitExpr(l) == [expr |-> "Lit", kind |-> l.kind, text |-> l.text]
PathExpr(p) == [expr |-> "Path", kind |-> "Ident", text |-> p]
Exprs == {LitExpr(l) : l \in Lits} \cup {PathExpr(p) : p \in {"make_value", "Table"}}

\* syn::Error: a list of messages; each message has its format string, the
\* values formatted into it, and the tokens its span points at.
Msg(fmt, args, span) == <<[fmt |-> fmt, args |-> args, span |-> span]>>
NoError == <<>>

\* LitStr::parse::<Path>() / LitStr::parse::<ExprPath>(): the text of the
\* string literal is tokenized again and read as a path.
LitStrParse(text) ==
    CASE text = "Table" -> [ok |-> TRUE, path |-> "Table", err |-> NoError]
      [] text = "SparseSet" -> [ok |-> TRUE, path |-> "SparseSet", err |-> NoError]
      [] text = "Unknown" -> [ok |-> TRUE, path |-> "Unknown", err |-> NoError]
      [] text = "make_value" -> [ok |-> TRUE, path |-> "make_value", err |-> NoError]
      [] OTHER -> [ok |-> FALSE, path |-> "", err |-> Msg("expected identifier", <<>>, text)]

\* ------------------------------------------------------- literal extractors
\* A syn::Result of an extractor: ok with the string (str) or the bool it
\* extracted, or not ok with the error.
\* (the format strings are the source's, with its backticks written as single
\* quotes and the escaped double quotes around ... left out)
Symbols == {"storage", "default", "foo"}

get_lit_str(attr_name, lit) ==
    IF lit.kind = "Str"
    THEN [ok |-> TRUE, str |-> lit.text, bool |-> FALSE, err |-> NoError]
    ELSE [ok |-> FALSE, str |-> "", bool |-> FALSE,
          err |-> Msg("expected {attr_name} attribute to be a string: '{attr_name} = ...'",
                      <<attr_name>>, lit.text)]

get_lit_str_value(meta_name_value) ==
    IF meta_name_value.value.expr = "Lit" /\ meta_name_value.value.kind = "Str"
    THEN [ok |-> TRUE, str |-> meta_name_value.value.text, bool |-> FALSE, err |-> NoError]
    ELSE [ok |-> FALSE, str |-> "", bool |-> FALSE,
          err |-> Msg("expected attribute to be a string: '{0} = ...'",
                      <<meta_name_value.path>>, meta_name_value.value.text)]

get_lit_bool(attr_name, lit) ==
    IF lit.kind = "Bool"
    THEN [ok |-> TRUE, str |-> "", bool |-> (lit.text = "true"), err |-> NoError]
    ELSE [ok |-> FALSE, str |-> "", bool |-> FALSE,
          err |-> Msg("expected {attr_name} attribute to be a bool value, 'true' or 'false': '{attr_name} = ...'",
                      <<attr_name>>, lit.text)]

get_lit_bool_value(meta_name_value) ==
    IF meta_name_value.value.expr = "Lit" /\ meta_name_value.value.kind = "Bool"
    THEN [ok |-> TRUE, str |-> "", bool |-> (meta_name_value.value.text = "true"), err |-> NoError]
    ELSE [ok |-> FALSE, str |-> "", bool |-> FALSE,
          err |-> Msg("expected attribute to be a string: '{0} = ...'",
                      <<meta_name_value.path>>, meta_name_value.value.text)]

\* ------------------------------------------------- reflect field attributes
ReflectIgnoreBehavior == {"None", "IgnoreSerialization", "IgnoreAlways"}

\* (variant: IgnoreSerialization listed with IgnoreAlways)
is_active_flavors_merged(self) ==
    CASE self = "None" -> TRUE
      [] self \in {"IgnoreSerialization", "IgnoreAlways"} -> FALSE

is_active(self) ==
    CASE self \in {"None", "IgnoreSerialization"} -> TRUE
      [] self = "IgnoreAlways" -> FALSE

is_ignored(self) == ~is_active(self)

\* DefaultBehavior: Required | Default | Func(path)
Required == [tag |-> "Required", path |-> ""]
UseDefault == [tag |-> "Default", path |-> ""]
Func(p) == [tag |-> "Func", path |-> p]

\* ReflectFieldAttr::default()
ReflectFieldAttrDefault == [ignore |-> "None", default |-> Required]

\* A step of the resolver on the accumulator: the accumulator after it and
\* its Result (err = NoError is Ok(())).  descend marks the one arm that
\* goes on into parse_nested_meta.
Res(a, e) == [args |-> a, err |-> e, descend |-> FALSE]

\* (variant: setting the flavor that is already set is accepted)
set_ignore_same_flavor_ok(args, path, behavior) ==
    IF args.ignore = "None" \/ args.ignore = behavior
    THEN Res([args EXCEPT !.ignore = behavior], NoError)
    ELSE Res(args, Msg("Only one of ['{IGNORE_SERIALIZATION_ATTR}','{IGNORE_ALL_ATTR}'] is allowed",
                        <<IGNORE_SERIALIZATION_ATTR, IGNORE_ALL_ATTR>>, path))

\* (variant: the last flag wins)
set_ignore_overwrite(args, path, behavior) == Res([args EXCEPT !.ignore = behavior], NoError)

set_ignore(args, path, behavior) ==
    IF args.ignore = "None"
    THEN Res([args EXCEPT !.ignore = behavior], NoError)
    ELSE Res(args, Msg("Only one of ['{IGNORE_SERIALIZATION_ATTR}','{IGNORE_ALL_ATTR}'] is allowed",
                        <<IGNORE_SERIALIZATION_ATTR, IGNORE_ALL_ATTR>>, path))

\* (variant: without the Expr::Path arm)
parse_name_value_str_only(args, pair) ==
    IF pair.path = DEFAULT_ATTR
    THEN CASE pair.value.expr = "Lit" /\ pair.value.kind = "Str" ->
                LET p == LitStrParse(pair.value.text)
                IN  IF p.ok
                    THEN Res([args EXCEPT !.default = Func(p.path)], NoError)
                    ELSE Res(args, p.err)
           [] OTHER ->
                Res(args, Msg("expected a string literal containing the name of a function, but found: {}",
                              <<pair.value.text>>, pair.path))
    ELSE Res(args, Msg("unknown attribute parameter: {}", <<pair.path>>, pair.path))

parse_name_value(args, pair) ==
    IF pair.path = DEFAULT_ATTR
    THEN CASE pair.value.expr = "Path" ->
                Res([args EXCEPT !.default = Func(pair.value.text)], NoError)
           [] pair.value.expr = "Lit" /\ pair.value.kind = "Str" ->
                LET p == LitStrParse(pair.value.text)
                IN  IF p.ok
                    THEN Res([args EXCEPT !.default = Func(p.path)], NoError)
                    ELSE Res(args, p.err)
           [] OTHER ->
                Res(args, Msg("expected a string literal containing the name of a function, but found: {}",
                              <<pair.value.text>>, pair.path))
    ELSE Res(args, Msg("unknown attribute parameter: {}", <<pair.path>>, pair.path))

\* syn::Meta
MetaPath(p) == [meta |-> "Path", path |-> p, value |-> PathExpr("")]
MetaNameValue(p, v) == [meta |-> "NameValue", path |-> p, value |-> v]
MetaList(p) == [meta |-> "List", path |-> p, value |-> PathExpr("")]

parse_meta(args, meta) ==
    CASE meta.meta = "Path" /\ meta.path = IGNORE_SERIALIZATION_ATTR ->
            set_ignore(args, meta.path, "IgnoreSerialization")
      [] meta.meta = "Path" /\ meta.path = IGNORE_ALL_ATTR ->
            set_ignore(args, meta.path, "IgnoreAlways")
      [] meta.meta = "Path" /\ meta.path = DEFAULT_ATTR ->
            Res([args EXCEPT !.default = UseDefault], NoError)
      [] meta.meta = "Path" ->
            Res(args, Msg("unknown attribute parameter: {}", <<meta.path>>, meta.path))
      [] meta.meta = "NameValue" -> parse_name_value(args, meta)
      [] meta.meta = "List" /\ meta.path # REFLECT_ATTRIBUTE_NAME ->
            Res(args, Msg("unexpected property", <<>>, meta.path))
      [] OTHER -> [args |-> args, err |-> NoError, descend |-> TRUE]

\* --------------------------------------------------------- attribute input
\* One attribute of the declaration, as syn hands it over: its path and the
\* shape of its Meta (the tokens of a List are read node by node, below).
AttrNames == {"reflect", "component", "doc", "default"}
Attributes ==
    {MetaPath(n) : n \in AttrNames} \cup {MetaList(n) : n \in AttrNames}
        \cup {MetaNameValue(n, LitExpr([kind |-> "Str", text |-> "make_value"])) : n \in AttrNames}

\* One comma-separated item of an attribute list, by the shape of its tokens:
\*   path   id                 a bare path
\*   eq     id = value         a name-value item
\*   paren  id ( ... )         a nested list item
\*   jnv    id key = value     a path directly followed by a name-value item
\*   jlist  id x key ( ... )   two paths directly followed by a list
Node(shape, id, key, value) == [shape |-> shape, id |-> id, key |-> key, value |-> value]
NoNode == Node("none", "", "", PathExpr(""))
Str(t) == LitExpr([kind |-> "Str", text |-> t])
Bool(t) == LitExpr([kind |-> "Bool", text |-> t])
Int(t) == LitExpr([kind |-> "Int", text |-> t])
\* The items drawn for a #[reflect(...)] list.
ReflectNodes ==
    {Node("path", i, "", PathExpr("")) : i \in {"skip_serializing", "ignore", "default", "foo"}}
    \cup {Node("eq", "default", "", v) : v \in {Str("make_value"), PathExpr("make_value")}}
    \cup {Node("eq", "foo", "", Str("Table"))}
    \cup {Node("paren", "reflect", "", PathExpr(""))}
    \cup {Node("jnv", "ignore", "default", v) :
        v \in {PathExpr("make_value"), Str("make_value"), Str("1+"), Bool("true"), Int("7")}}
    \cup {Node("jnv", "ignore", "foo", Str("make_value"))}
    \cup {Node("jlist", "ignore", k, PathExpr("")) : k \in {"reflect", "foo"}}

\* The items drawn for a #[component(...)] list.
ComponentNodes ==
    {Node("path", i, "", PathExpr("")) : i \in {"storage", "foo"}}
    \cup {Node("eq", "storage", "", v) :
        v \in {Str("Table"), Str("SparseSet"), Str("Unknown"), Str("1+"), Bool("true"), PathExpr("Table")}}
    \cup {Node("eq", "foo", "", Str("Table"))}
    \cup {Node("paren", "storage", "", PathExpr(""))}
    \cup {Node("jnv", "storage", "foo", Str("Table"))}

\* The nodes a list may continue with: none once the attribute's node budget
\* is used up, and no further nesting at the deepest level.
NextNodes(S, d, n) ==
    IF n >= MaxNodes
    THEN {NoNode}
    ELSE {NoNode} \cup
         {x \in S : d < MaxDepth \/ ~(x.shape = "jlist" /\ x.key = REFLECT_ATTRIBUTE_NAME)}

Count(n, x) == IF x = NoNode THEN n ELSE n + 1

\* Path::is_ident
is_ident(path, name) == path = name

\* (variant: no filter)
reflect_filter_all(a) == TRUE

\* .filter(|a| a.path().is_ident(REFLECT_ATTRIBUTE_NAME))
reflect_filter(a) == is_ident(a.path, REFLECT_ATTRIBUTE_NAME)

\* .filter(|a| a.path().is_ident(&COMPONENT))
component_filter(a) == is_ident(a.path, COMPONENT)

\* --------------------------------------- parse_meta's closure (field attrs)
\* MetaNameValue::parse(parse_nested_meta.input): the input stands after the
\* item's first path, so it succeeds only when a second path and = value follow.
MetaNameValue_parse(node) == node.shape = "jnv"

\* MetaList::parse(parse_nested_meta.input), tried after the name-value parse
\* failed: that parse consumed one path before it failed on the missing =.
MetaList_parse(node) == node.shape = "jlist"

nested_meta(node) ==
    IF MetaNameValue_parse(node) THEN MetaNameValue(node.key, node.value)
    ELSE IF MetaList_parse(node) THEN MetaList(node.key)
    ELSE MetaPath(node.id)

\* Tokens of the item the closure left unread: parse_nested_meta then fails.
Leftover(node) == node.shape \in {"eq", "paren"}
ExpectedComma(node) == Msg("expected ','", <<>>, node.id)

\* ------------------------------------------------------ parse_component_attr
StorageTy == {"Table", "SparseSet"}
AttrsInit == [storage |-> "Table"]

CRes(a, e, p) == [attrs |-> a, err |-> e, panic |-> p]

\* (variant: the two kinds swapped)
component_meta_swapped(attrs, node) ==
    IF is_ident(node.id, STORAGE)
    THEN IF node.shape # "eq"
         THEN CRes(attrs, Msg("expected '='", <<>>, node.id), FALSE)
         ELSE IF ~(node.value.expr = "Lit" /\ node.value.kind = "Str")
         THEN CRes(attrs, Msg("expected string literal", <<>>, node.value.text), FALSE)
         ELSE LET p == LitStrParse(node.value.text)
              IN  CASE p.ok /\ is_ident(p.path, TABLE) ->
                         CRes([attrs EXCEPT !.storage = "SparseSet"], NoError, FALSE)
                    [] p.ok /\ is_ident(p.path, SPARSE_SET) ->
                         CRes([attrs EXCEPT !.storage = "Table"], NoError, FALSE)
                    [] p.ok ->
                         CRes(attrs, Msg("Invalid storage type '{found}', expected '{TABLE}' or '{SPARSE_SET}'.",
                                         <<p.path, TABLE, SPARSE_SET>>, p.path), FALSE)
                    [] OTHER -> CRes(attrs, NoError, TRUE)
    ELSE CRes(attrs, Msg("unknown component attribute '{}'", <<node.id>>, node.id), FALSE)

\* (variant: Table, being the initial kind, is not assigned)
component_meta_table_kept(attrs, node) ==
    IF is_ident(node.id, STORAGE)
    THEN IF node.shape # "eq"
         THEN CRes(attrs, Msg("expected '='", <<>>, node.id), FALSE)
         ELSE IF ~(node.value.expr = "Lit" /\ node.value.kind = "Str")
         THEN CRes(attrs, Msg("expected string literal", <<>>, node.value.text), FALSE)
         ELSE LET p == LitStrParse(node.value.text)
              IN  CASE p.ok /\ is_ident(p.path, TABLE) ->
                         CRes(attrs, NoError, FALSE)
                    [] p.ok /\ is_ident(p.path, SPARSE_SET) ->
                         CRes([attrs EXCEPT !.storage = "SparseSet"], NoError, FALSE)
                    [] p.ok ->
                         CRes(attrs, Msg("Invalid storage type '{found}', expected '{TABLE}' or '{SPARSE_SET}'.",
                                         <<p.path, TABLE, SPARSE_SET>>, p.path), FALSE)
                    [] OTHER -> CRes(attrs, NoError, TRUE)
    ELSE CRes(attrs, Msg("unknown component attribute '{}'", <<node.id>>, node.id), FALSE)

\* The closure handed to attr.parse_nested_meta.
component_meta(attrs, node) ==
    IF is_ident(node.id, STORAGE)
    THEN IF node.shape # "eq"
         THEN CRes(attrs, Msg("expected '='", <<>>, node.id), FALSE)
         ELSE IF ~(node.value.expr = "Lit" /\ node.value.kind = "Str")
         THEN CRes(attrs, Msg("expected string literal", <<>>, node.value.text), FALSE)
         ELSE LET p == LitStrParse(node.value.text)
              IN  CASE p.ok /\ is_ident(p.path, TABLE) ->
                         CRes([attrs EXCEPT !.storage = "Table"], NoError, FALSE)
                    [] p.ok /\ is_ident(p.path, SPARSE_SET) ->
                         CRes([attrs EXCEPT !.storage = "SparseSet"], NoError, FALSE)
                    [] p.ok ->
                         CRes(attrs, Msg("Invalid storage type '{found}', expected '{TABLE}' or '{SPARSE_SET}'.",
                                         <<p.path, TABLE, SPARSE_SET>>, p.path), FALSE)
                    [] OTHER -> CRes(attrs, NoError, TRUE)
    ELSE CRes(attrs, Msg("unknown component attribute '{}'", <<node.id>>, node.id), FALSE)

\* Attribute::parse_nested_meta on an attribute that is not a list.
RequireList(meta) ==
    IF meta.meta = "Path"
    THEN Msg("expected attribute arguments in parentheses: #[{}(...)]", <<meta.path>>, meta.path)
    ELSE Msg("expected parentheses: #[{}(...)]", <<meta.path>>, meta.path)

\* -------------------------------------------------------------------- state
VARIABLES
    derive,     \* the entry point this behaviour runs
    pc,         \* "for": at the head of the loop over the attributes;
                \* "nested": inside parse_nested_meta; "done": returned
    args,       \* parse_field_attrs: let mut args (ReflectFieldAttr)
    attrs,      \* parse_component_attr: let mut attrs (Attrs)
    errors,     \* parse_field_attrs: let mut errors; else the returned Error
    outcome,    \* "running", or how the call ended: "Ok", "Err", "panic"
    nAttrs,     \* attributes of the declaration the loop has taken so far
    attr,       \* path of the attribute taken last ("" before the first)
    relevant,   \* how many of the attributes taken passed the filter
    depth,      \* nesting depth of the list being read (0 outside a list)
    node,       \* the next item of the list being read (NoNode at its end)
    nodes,      \* items read so far in the current attribute
    unvisited,  \* the item that followed the one on which the list failed
    first,      \* the kind the first applied storage item selected ("" before)
    called,     \* literal extractors: the last call
    ret         \* literal extractors: what it returned

vars == <<derive, pc, args, attrs, errors, outcome, nAttrs, attr, relevant,
          depth, node, nodes, unvisited, first, called, ret>>

NoCall == [fn |-> "", name |-> "", value |-> PathExpr("")]
NoRet == [ok |-> FALSE, str |-> "", bool |-> FALSE, err |-> NoError]

Init ==
    /\ derive \in {"parse_field_attrs", "parse_component_attr", "attrs"}
    /\ pc = "for"
    /\ args = ReflectFieldAttrDefault
    /\ attrs = AttrsInit
    /\ errors = NoError
    /\ outcome = "running"
    /\ nAttrs = 0
    /\ attr = ""
    /\ relevant = 0
    /\ depth = 0
    /\ node = NoNode
    /\ nodes = 0
    /\ unvisited = NoNode
    /\ first = ""
    /\ called = NoCall
    /\ ret = NoRet

\* ---------------------------------------------------------- parse_field_attrs
\* The loop takes an attribute the filter rejects.
FieldSkipAttr ==
    /\ derive = "parse_field_attrs" /\ pc = "for" /\ nAttrs < MaxAttrs
    /\ \E a \in Attributes :
        /\ ~reflect_filter(a)
        /\ attr' = a.path
    /\ nAttrs' = nAttrs + 1
    /\ unvisited' = NoNode
    /\ UNCHANGED <<derive, pc, args, attrs, errors, outcome, relevant, depth, node, nodes, first, called, ret>>

\* The loop body on an attribute that is no list of the namespace:
\* parse_meta ends at once, and its error joins errors.
FieldAttrMeta ==
    /\ derive = "parse_field_attrs" /\ pc = "for" /\ nAttrs < MaxAttrs
    /\ \E a \in Attributes :
        /\ reflect_filter(a)
        /\ ~parse_meta(args, a).descend
        /\ attr' = a.path
        /\ args' = parse_meta(args, a).args
        /\ errors' = errors \o parse_meta(args, a).err
    /\ nAttrs' = nAttrs + 1
    /\ relevant' = relevant + 1
    /\ unvisited' = NoNode
    /\ UNCHANGED <<derive, pc, attrs, outcome, depth, node, nodes, first, called, ret>>

\* The loop body on #[reflect(...)]: parse_meta calls list.parse_nested_meta.
FieldAttrList ==
    /\ derive = "parse_field_attrs" /\ pc = "for" /\ nAttrs < MaxAttrs
    /\ \E a \in Attributes :
        /\ reflect_filter(a)
        /\ parse_meta(args, a).descend
        /\ attr' = a.path
    /\ \E x \in NextNodes(ReflectNodes, 1, 0) :
        /\ node' = x
        /\ nodes' = Count(0, x)
    /\ nAttrs' = nAttrs + 1
    /\ relevant' = relevant + 1
    /\ pc' = "nested"
    /\ depth' = 1
    /\ unvisited' = NoNode
    /\ UNCHANGED <<derive, args, attrs, errors, outcome, first, called, ret>>

\* parse_nested_meta calls the closure on the next item, and the closure
\* dispatches it to an arm of parse_meta that returns at once.  An Err ends
\* every enclosing list and the attribute; so do unread tokens of the item.
NestedNode ==
    /\ derive = "parse_field_attrs" /\ pc = "nested" /\ node # NoNode
    /\ ~parse_meta(args, nested_meta(node)).descend
    /\ LET r == parse_meta(args, nested_meta(node))
           e == IF r.err # NoError THEN r.err
                ELSE IF Leftover(node) THEN ExpectedComma(node)
                ELSE NoError
       IN  /\ args' = r.args
           /\ errors' = errors \o e
           /\ \E x \in NextNodes(ReflectNodes, depth, nodes) :
                IF e = NoError
                THEN /\ node' = x
                     /\ nodes' = Count(nodes, x)
                     /\ UNCHANGED <<pc, depth, unvisited>>
                ELSE /\ unvisited' = x
                     /\ node' = NoNode
                     /\ pc' = "for"
                     /\ depth' = 0
                     /\ nodes' = 0
    /\ UNCHANGED <<derive, attrs, outcome, nAttrs, attr, relevant, first, called, ret>>

\* The closure dispatches a list of the namespace: parse_meta recurses into
\* list.parse_nested_meta.
NestedList ==
    /\ derive = "parse_field_attrs" /\ pc = "nested" /\ node # NoNode
    /\ parse_meta(args, nested_meta(node)).descend
    /\ \E x \in NextNodes(ReflectNodes, depth + 1, nodes) :
        /\ node' = x
        /\ nodes' = Count(nodes, x)
    /\ depth' = depth + 1
    /\ UNCHANGED <<derive, pc, args, attrs, errors, outcome, nAttrs, attr, relevant, unvisited, first, called, ret>>

\* parse_nested_meta finds its input empty and returns Ok: an inner list
\* returns into the closure of the outer one, the outermost into the loop.
NestedEnd ==
    /\ derive = "parse_field_attrs" /\ pc = "nested" /\ node = NoNode
    /\ IF depth > 1
       THEN /\ \E x \in NextNodes(ReflectNodes, depth - 1, nodes) :
                /\ node' = x
                /\ nodes' = Count(nodes, x)
            /\ depth' = depth - 1
            /\ pc' = pc
       ELSE /\ pc' = "for"
            /\ depth' = 0
            /\ nodes' = 0
            /\ node' = NoNode
    /\ UNCHANGED <<derive, args, attrs, errors, outcome, nAttrs, attr, relevant, unvisited, first, called, ret>>

\* After the loop: Err(error) if any error was collected, else Ok(args).
FieldReturn ==
    /\ derive = "parse_field_attrs" /\ pc = "for"
    /\ pc' = "done"
    /\ outcome' = IF errors # NoError THEN "Err" ELSE "Ok"
    /\ UNCHANGED <<derive, args, attrs, errors, nAttrs, attr, relevant, depth, node, nodes, unvisited, first, called, ret>>

\* ------------------------------------------------------ parse_component_attr
\* The loop takes an attribute the filter rejects.
CompSkipAttr ==
    /\ derive = "parse_component_attr" /\ pc = "for" /\ nAttrs < MaxAttrs
    /\ \E a \in Attributes :
        /\ ~component_filter(a)
        /\ attr' = a.path
    /\ nAttrs' = nAttrs + 1
    /\ UNCHANGED <<derive, pc, args, attrs, errors, outcome, relevant, depth, node, nodes, unvisited, first, called, ret>>

\* attr.parse_nested_meta on #[component] or #[component = ...]: Err, and
\* the ? operator returns it.
CompAttrMeta ==
    /\ derive = "parse_component_attr" /\ pc = "for" /\ nAttrs < MaxAttrs
    /\ \E a \in Attributes :
        /\ component_filter(a)
        /\ a.meta # "List"
        /\ attr' = a.path
        /\ errors' = RequireList(a)
    /\ nAttrs' = nAttrs + 1
    /\ relevant' = relevant + 1
    /\ pc' = "done"
    /\ outcome' = "Err"
    /\ UNCHANGED <<derive, args, attrs, depth, node, nodes, unvisited, first, called, ret>>

\* attr.parse_nested_meta on #[component(...)] starts on the list.
CompAttrList ==
    /\ derive = "parse_component_attr" /\ pc = "for" /\ nAttrs < MaxAttrs
    /\ \E a \in Attributes :
        /\ component_filter(a)
        /\ a.meta = "List"
        /\ attr' = a.path
    /\ \E x \in NextNodes(ComponentNodes, 1, 0) :
        /\ node' = x
        /\ nodes' = Count(0, x)
    /\ nAttrs' = nAttrs + 1
    /\ relevant' = relevant + 1
    /\ pc' = "nested"
    /\ depth' = 1
    /\ UNCHANGED <<derive, args, attrs, errors, outcome, unvisited, first, called, ret>>

\* parse_nested_meta calls the closure on the next item.  Its Err leaves the
\* list and, by the ? operator after the closure, the function; todo!() panics.
CompNode ==
    /\ derive = "parse_component_attr" /\ pc = "nested" /\ node # NoNode
    /\ LET r == component_meta(attrs, node)
       IN  /\ attrs' = r.attrs
           /\ errors' = r.err
           /\ first' = IF first = "" /\ ~r.panic /\ r.err = NoError /\ is_ident(node.id, STORAGE)
                       THEN r.attrs.storage
                       ELSE first
           /\ \E x \in NextNodes(ComponentNodes, depth, nodes) :
                IF ~r.panic /\ r.err = NoError
                THEN /\ node' = x
                     /\ nodes' = Count(nodes, x)
                     /\ UNCHANGED <<pc, depth, outcome, unvisited>>
                ELSE /\ unvisited' = x
                     /\ node' = NoNode
                     /\ pc' = "done"
                     /\ outcome' = IF r.panic THEN "panic" ELSE "Err"
                     /\ depth' = 0
                     /\ nodes' = 0
    /\ UNCHANGED <<derive, args, nAttrs, attr, relevant, called, ret>>

\* parse_nested_meta finds its input empty and returns Ok into the loop.
CompListEnd ==
    /\ derive = "parse_component_attr" /\ pc = "nested" /\ node = NoNode
    /\ pc' = "for"
    /\ depth' = 0
    /\ nodes' = 0
    /\ UNCHANGED <<derive, args, attrs, errors, outcome, nAttrs, attr, relevant, node, unvisited, first, called, ret>>

\* After the loop: Ok(attrs).
CompReturn ==
    /\ derive = "parse_component_attr" /\ pc = "for"
    /\ pc' = "done"
    /\ outcome' = "Ok"
    /\ UNCHANGED <<derive, args, attrs, errors, nAttrs, attr, relevant, depth, node, nodes, unvisited, first, called, ret>>

\* ------------------------------------------------------- literal extractors
Call(fn, name, value) == [fn |-> fn, name |-> name, value |-> value]
Pair(name, value) == [path |-> name, value |-> value]

GetLitStr ==
    /\ derive = "attrs"
    /\ \E n \in Symbols, l \in Lits :
        /\ called' = Call("get_lit_str", n, LitExpr(l))
        /\ ret' = get_lit_str(n, l)
    /\ UNCHANGED <<derive, pc, args, attrs, errors, outcome, nAttrs, attr, relevant, depth, node, nodes, unvisited, first>>

GetLitStrValue ==
    /\ derive = "attrs"
    /\ \E n \in Symbols, v \in Exprs :
        /\ called' = Call("get_lit_str_value", n, v)
        /\ ret' = get_lit_str_value(Pair(n, v))
    /\ UNCHANGED <<derive, pc, args, attrs, errors, outcome, nAttrs, attr, relevant, depth, node, nodes, unvisited, first>>

GetLitBool ==
    /\ derive = "attrs"
    /\ \E n \in Symbols, l \in Lits :
        /\ called' = Call("get_lit_bool", n, LitExpr(l))
        /\ ret' = get_lit_bool(n, l)
    /\ UNCHANGED <<derive, pc, args, attrs, errors, outcome, nAttrs, attr, relevant, depth, node, nodes, unvisited, first>>

GetLitBoolValue ==
    /\ derive = "attrs"
    /\ \E n \in Symbols, v \in Exprs :
        /\ called' = Call("get_lit_bool_value", n, v)
        /\ ret' = get_lit_bool_value(Pair(n, v))
    /\ UNCHANGED <<derive, pc, args, attrs, errors, outcome, nAttrs, attr, relevant, depth, node, nodes, unvisited, first>>

\* ------------------------------------------------------------ specification
Next ==
    \/ FieldSkipAttr
    \/ FieldAttrMeta
    \/ FieldAttrList
    \/ NestedNode
    \/ NestedList
    \/ NestedEnd
    \/ FieldReturn
    \/ CompSkipAttr
    \/ CompAttrMeta
    \/ CompAttrList
    \/ CompNode
    \/ CompListEnd
    \/ CompReturn
    \/ GetLitStr
    \/ GetLitStrValue
    \/ GetLitBool
    \/ GetLitBoolValue

Spec == Init /\ [][Next]_vars

\* ------------------------------------------------------------------ claims
Field == derive = "parse_field_attrs"
Comp == derive = "parse_component_attr"
Namespace == IF Field THEN REFLECT_ATTRIBUTE_NAME ELSE COMPONENT
ConflictFmt == "Only one of ['{IGNORE_SERIALIZATION_ATTR}','{IGNORE_ALL_ATTR}'] is allowed"
IgnoreFlagNode(n) == n.shape = "path" /\ n.id \in {IGNORE_SERIALIZATION_ATTR, IGNORE_ALL_ATTR}
Flavor(id) == IF id = IGNORE_SERIALIZATION_ATTR THEN "IgnoreSerialization" ELSE "IgnoreAlways"
Last(q) == q[Len(q)]

\* A list item that is an error whatever the accumulator holds.
IndependentlyMalformed(n) ==
    /\ n # NoNode
    /\ \A i \in ReflectIgnoreBehavior :
        \/ parse_meta([ignore |-> i, default |-> Required], nested_meta(n)).err # NoError
        \/ Leftover(n)

\* C1: two independently malformed nodes of one field give an error set with
\* two entries, also when they are siblings in one #[reflect(...)] list: once
\* the only reflect attribute read so far has failed on a node, a malformed
\* sibling right after that node has been visited and reported too.
C1_SiblingErrorsCombined ==
    (Field /\ relevant = 1 /\ IndependentlyMalformed(unvisited)) => Len(errors) >= 2

\* C2: an ignore flag applied to the accumulator succeeds when ignore is None
\* and sets its flavor; applied when a flag (the same or the other one) was
\* set before, it yields the conflicting-option error and changes nothing.
C2_SecondIgnoreConflicts ==
    [][(Field /\ pc = "nested" /\ IgnoreFlagNode(node)) =>
        IF args.ignore = "None"
        THEN args' = [args EXCEPT !.ignore = Flavor(node.id)] /\ errors' = errors
        ELSE /\ args' = args
             /\ Len(errors') = Len(errors) + 1
             /\ Last(errors').fmt = ConflictFmt
             /\ Last(errors').span = node.id]_vars

C2_Witness ==
    /\ Field /\ args.ignore = "IgnoreAlways"
    /\ Len(errors) = 2
    /\ errors[1].fmt = ConflictFmt /\ errors[1].span = IGNORE_SERIALIZATION_ATTR
    /\ errors[2].fmt = ConflictFmt /\ errors[2].span = IGNORE_ALL_ATTR

StorageItem(n, t) == n.shape = "eq" /\ n.id = STORAGE /\ n.value = Str(t)

\* C3: storage = "Table" selects the kind a declaration without storage has,
\* storage = "SparseSet" the other kind, storage = "Unknown" is an error whose
\* message names Table and SparseSet, and a key other than storage is an
\* unknown component attribute error.
C3_StorageMapping ==
    [][(Comp /\ pc = "nested" /\ node # NoNode) =>
        /\ StorageItem(node, "Table") =>
            attrs'.storage = AttrsInit.storage /\ outcome' = "running"
        /\ StorageItem(node, "SparseSet") =>
            attrs'.storage \in StorageTy \ {AttrsInit.storage} /\ outcome' = "running"
        /\ StorageItem(node, "Unknown") =>
            /\ outcome' = "Err" /\ attrs' = attrs
            /\ {TABLE, SPARSE_SET} \subseteq {errors'[1].args[i] : i \in 1..Len(errors'[1].args)}
        /\ node.id # STORAGE =>
            /\ outcome' = "Err" /\ attrs' = attrs
            /\ errors'[1].fmt = "unknown component attribute '{}'"
        /\ (pc' = "done" /\ outcome' = "Ok" /\ first' = "") => attrs'.storage = "Table"]_vars

C3_Witness ==
    /\ Comp /\ outcome = "Err" /\ first = "SparseSet" /\ attrs.storage = "SparseSet"
    /\ errors[1].args = <<"Unknown", TABLE, SPARSE_SET>>

\* C4: every call of parse_component_attr and parse_field_attrs ends in a
\* success value or a reported error, never in a panic.
C4_NoPanic == outcome \in {"running", "Ok", "Err"}

\* C5: an attribute outside the resolver's namespace changes neither the
\* accumulator nor the errors nor the course of the call, and a call that saw
\* no attribute of its namespace returns Ok with the default accumulator.
C5_ForeignInvisible ==
    [][(Field \/ Comp) =>
        /\ (nAttrs' = nAttrs + 1 /\ attr' # Namespace) =>
            /\ args' = args /\ attrs' = attrs /\ errors' = errors
            /\ outcome' = outcome /\ pc' = pc
        /\ (pc' = "done" /\ relevant' = 0) =>
            /\ outcome' = "Ok" /\ errors' = NoError
            /\ args' = ReflectFieldAttrDefault /\ attrs' = AttrsInit]_vars

C5_Witness ==
    /\ Field /\ pc = "done" /\ nAttrs = 2 /\ relevant = 1 /\ attr = "default"
    /\ args = [ignore |-> "IgnoreAlways", default |-> Required] /\ outcome = "Ok"

C7_ActiveIgnoredComplement ==
    /\ args.ignore \in ReflectIgnoreBehavior
    /\ is_active(args.ignore) = (args.ignore \in {"None", "IgnoreSerialization"})
    /\ is_ignored(args.ignore) = (args.ignore = "IgnoreAlways")
    /\ is_active(args.ignore) # is_ignored(args.ignore)

C7_Witness == Field /\ args.ignore = "IgnoreSerialization" /\ nodes = 2 /\ Len(errors) = 1

\* The literal shape a message of the extractors names.
NamedShape(fmt) ==
    CASE fmt = "expected {attr_name} attribute to be a string: '{attr_name} = ...'" -> "string"
      [] fmt = "expected attribute to be a string: '{0} = ...'" -> "string"
      [] fmt = "expected {attr_name} attribute to be a bool value, 'true' or 'false': '{attr_name} = ...'" -> "bool"
      [] OTHER -> "none"

ExpectedShape(fn) == IF fn \in {"get_lit_str", "get_lit_str_value"} THEN "string" ELSE "bool"
ExpectedKind(fn) == IF fn \in {"get_lit_str", "get_lit_str_value"} THEN "Str" ELSE "Bool"

\* C8: an extractor succeeds exactly on a literal of the kind it expects, and
\* its error on anything else names the shape it expects: a string for the
\* string extractors, a bool for the bool extractors.
C8_ExtractorErrorsNameShape ==
    called.fn # "" =>
        /\ ret.ok = (called.value.expr = "Lit" /\ called.value.kind = ExpectedKind(called.fn))
        /\ ~ret.ok => NamedShape(ret.err[1].fmt) = ExpectedShape(called.fn)

C10_IgnoreWriteOnce ==
    [][Field =>
        /\ args.ignore # "None" => args'.ignore = args.ignore
        /\ (pc = "nested" /\ IgnoreFlagNode(node) /\ args.ignore # "None") => args' = args
        /\ ~(pc = "nested" /\ IgnoreFlagNode(node)) => args'.ignore = args.ignore]_vars

C10_Witness ==
    /\ Field /\ pc = "done"
    /\ args = [ignore |-> "IgnoreSerialization", default |-> UseDefault]
    /\ Len(errors) = 1 /\ errors[1].fmt = ConflictFmt /\ errors[1].span = IGNORE_ALL_ATTR

====
